---- MODULE Spec2Model ----
(***************************************************************************)
(* Model of the raster compositing pipeline of noisy-image-gen:           *)
(*   src/src/coloring.rs   colour algebra, hex parsing, gradients          *)
(*   src/src/shapes.rs     points, rectangles                              *)
(*   src/src/image_gen.rs  Image and draw_custom                           *)
(*   src/src/image-gen.rs  the legacy Color::draw_over                     *)
(*                                                                         *)
(* Integer types keep their width: u8 is 0..255, a cast "as u8" is         *)
(* "% 256".  f64 values that are not integers (distances, mixing weights)  *)
(* are kept as fixed-point numbers in units of 1/Scale, truncated; the     *)
(* values 0.0 and 1.0 and every integer are exact in both.                 *)
(***************************************************************************)
EXTENDS Integers, Sequences, FiniteSets, TLC

VARIABLES pc, args, ret, ret2, canvas, canvas_width, history, gradient, frame

vars == <<pc, args, ret, ret2, canvas, canvas_width, history, gradient, frame>>

(***************************************************************************)
(* Bounds of the model                                                     *)
(***************************************************************************)
NChan == 6        \* number of sampled channel values (0 and 255 included)
NAlpha == 6       \* number of sampled alpha values (0 and 255 included)

U8_MAX == 255     \* u8::MAX
MAX_ALPHA == 255  \* legacy MAX_ALPHA

Byte == 0..U8_MAX

AsU8(n) == n % 256

ChanSamples == {(U8_MAX * i) \div (NChan - 1) : i \in 0..(NChan - 1)}
AlphaSamples == {(U8_MAX * i) \div (NAlpha - 1) : i \in 0..(NAlpha - 1)}

(***************************************************************************)
(* SolidColor and TransparentColor  (coloring.rs)                          *)
(***************************************************************************)
SolidColor(r, g, b) == [red |-> r, green |-> g, blue |-> b]
TransparentColor(r, g, b, a) == [red |-> r, green |-> g, blue |-> b, alpha |-> a]

BLACK == SolidColor(0, 0, 0)
TRANSPARENT == TransparentColor(0, 0, 0, 0)

\* the sampled colours: three different channel values per sample
SolidSample(c) == SolidColor(c, U8_MAX - c, (c * 7 + 3) % 256)
SolidSamples == {SolidSample(c) : c \in ChanSamples}
TransparentSamples ==
    {TransparentColor(s.red, s.green, s.blue, a) : s \in SolidSamples, a \in AlphaSamples}

as_solid(self) == SolidColor(self.red, self.green, self.blue)

\* the closure of draw_on_solid, on u16; alpha2 is self.alpha
\* the sum before the cast "as u8"
find_new_color_solid_u16(color1, color2, alpha2) ==
    (color1 * (U8_MAX - alpha2)) \div U8_MAX + (color2 * alpha2) \div U8_MAX

find_new_color_solid_shift(color1, color2, alpha2) ==
    AsU8((color1 * (U8_MAX - alpha2)) \div 256 + (color2 * alpha2) \div 256)

find_new_color_solid(color1, color2, alpha2) ==
    AsU8(find_new_color_solid_u16(color1, color2, alpha2))

draw_on_solid_keeps_over(self, base_color) ==
    SolidColor(find_new_color_solid(self.red, base_color.red, self.alpha),
               find_new_color_solid(self.green, base_color.green, self.alpha),
               find_new_color_solid(self.blue, base_color.blue, self.alpha))

draw_on_solid(self, base_color) ==
    SolidColor(find_new_color_solid(base_color.red, self.red, self.alpha),
               find_new_color_solid(base_color.green, self.green, self.alpha),
               find_new_color_solid(base_color.blue, self.blue, self.alpha))

\* new_alpha of draw_on, on u32
new_alpha_shift(self_alpha, base_alpha) ==
    self_alpha + base_alpha - (self_alpha * base_alpha) \div 256

new_alpha(self_alpha, base_alpha) ==
    self_alpha + base_alpha - (self_alpha * base_alpha) \div 255

\* numer of the closure of draw_on, on u32
numer(color1, color2, alpha2) ==
    color1 * color2 * (U8_MAX - alpha2) + U8_MAX * color2 * alpha2

DivideByZero == [tag |-> "panic", msg |-> "attempt to divide by zero"]
Returned(c) == [tag |-> "ok", color |-> c]
NotCalled == [tag |-> "none"]

\* draw_on: the division numer / new_alpha panics when new_alpha is 0
draw_on(self, base_color) ==
    LET na == new_alpha(self.alpha, base_color.alpha)
        find_new_color(color1, color2) == AsU8(numer(color1, color2, self.alpha) \div na)
    IN  IF na = 0
        THEN DivideByZero
        ELSE Returned(TransparentColor(find_new_color(base_color.red, self.red),
                                       find_new_color(base_color.green, self.green),
                                       find_new_color(base_color.blue, self.blue),
                                       AsU8(na)))

(***************************************************************************)
(* The legacy Color  (image-gen.rs)                                        *)
(***************************************************************************)
blend_hex_value(v1, v2, alpha) ==
    AsU8((v1 * alpha + v2 * (MAX_ALPHA - alpha)) \div MAX_ALPHA)

draw_over_opaque(self, color_under) ==
    SolidColor(blend_hex_value(self.red, color_under.red, self.alpha),
               blend_hex_value(self.green, color_under.green, self.alpha),
               blend_hex_value(self.blue, color_under.blue, self.alpha))

combined_alpha(self_alpha, under_alpha) ==
    MAX_ALPHA - ((MAX_ALPHA - under_alpha) * (MAX_ALPHA - self_alpha)) \div MAX_ALPHA

draw_over(self, color_under) ==
    LET ca == combined_alpha(self.alpha, color_under.alpha)
        combine_color(color1, alpha1, color2, alpha2) ==
            ((color1 * alpha1 * (MAX_ALPHA - alpha2)) \div MAX_ALPHA + color2 * alpha2) \div ca
    IN  IF ca = 0
        THEN DivideByZero
        ELSE Returned(TransparentColor(
                 AsU8(combine_color(color_under.red, color_under.alpha, self.red, self.alpha)),
                 AsU8(combine_color(color_under.green, color_under.alpha, self.green, self.alpha)),
                 AsU8(combine_color(color_under.blue, color_under.alpha, self.blue, self.alpha)),
                 AsU8(ca)))

(***************************************************************************)
(* Hex codes  (coloring.rs).  A &str is a sequence of one-character        *)
(* strings; all characters are ASCII.                                      *)
(***************************************************************************)
MaxLen == 8       \* longest hex code body (the text after an optional '#')

HexChars == {"0", "F", "G", "+"}

Strings(n) == UNION {[1..k -> HexChars] : k \in 0..n}

HexInputs == Strings(MaxLen) \cup {<<"#">> \o b : b \in Strings(MaxLen)}

Panic(m) == [tag |-> "panic", msg |-> m]

IsHexDigit(ch) == ch \in {"0", "F"}

DigitValue(ch) == IF ch = "F" THEN 15 ELSE 0

\* u8::from_str_radix(src, 16) on a two-character slice: an optional '+'
\* sign followed by at least one digit
from_str_radix(src) ==
    IF src[1] = "+"
    THEN IF IsHexDigit(src[2]) THEN [ok |-> TRUE, value |-> DigitValue(src[2])]
                               ELSE [ok |-> FALSE, value |-> 0]
    ELSE IF IsHexDigit(src[1]) /\ IsHexDigit(src[2])
         THEN [ok |-> TRUE, value |-> 16 * DigitValue(src[1]) + DigitValue(src[2])]
         ELSE [ok |-> FALSE, value |-> 0]

\* &hex_code[from..to], with the 0-based, end-exclusive indices of the source
Slice(hex_code, from, to) == SubSeq(hex_code, from + 1, to)

\* hex_code with a leading '#' removed
StripHash(hex_code) ==
    IF Len(hex_code) > 0 /\ hex_code[1] = "#" THEN Tail(hex_code) ELSE hex_code

\* the slice the alpha component is parsed from
AlphaSlice(hex_code) == Slice(hex_code, 4, 6)

TransparentColor_from_hex_code(orig_hex_code) ==
    LET hex_code == StripHash(orig_hex_code)
    IN  IF Len(hex_code) = 6 \/ Len(hex_code) = 8
        THEN LET red == from_str_radix(Slice(hex_code, 0, 2))
                 green == from_str_radix(Slice(hex_code, 2, 4))
                 blue == from_str_radix(Slice(hex_code, 4, 6))
             IN  IF ~red.ok THEN Panic("Invalid red component in hex code")
                 ELSE IF ~green.ok THEN Panic("Invalid green component in hex code")
                 ELSE IF ~blue.ok THEN Panic("Invalid blue component in hex code")
                 ELSE IF Len(hex_code) = 8
                      THEN LET alpha == from_str_radix(AlphaSlice(hex_code))
                           IN  IF ~alpha.ok
                               THEN Panic("Invalid alpha component in hex code")
                               ELSE Returned(TransparentColor(red.value, green.value,
                                                              blue.value, alpha.value))
                      ELSE Returned(TransparentColor(red.value, green.value,
                                                     blue.value, U8_MAX))
        ELSE Panic("Invalid hex code")

\* TryInto<SolidColor> for TransparentColor
try_into_solid(self) ==
    IF self.alpha = U8_MAX THEN [ok |-> TRUE, value |-> as_solid(self)]
                           ELSE [ok |-> FALSE, value |-> BLACK]

AlphaNotAllowed == Panic("alpha component specified for a solid color")

SolidColor_from_hex_code(orig_hex_code) ==
    LET hex_code == StripHash(orig_hex_code)
    IN  IF Len(hex_code) = 8 /\ ~from_str_radix(Slice(hex_code, 6, 8)).ok
        THEN Panic("Invalid hex code")
        ELSE LET t == TransparentColor_from_hex_code(orig_hex_code)
             IN  IF t.tag # "ok" THEN t
                 ELSE LET s == try_into_solid(t.color)
                      IN  IF s.ok THEN Returned(s.value) ELSE AlphaNotAllowed

(***************************************************************************)
(* Points and rectangles  (shapes.rs).  Coordinates are f64 in the source; *)
(* the model uses the integer-valued ones, which f64 holds exactly.        *)
(***************************************************************************)
Scale == 1024     \* fixed-point unit of the non-integer f64 values

Point(px, py) == [x |-> px, y |-> py]

square_dist_to(self, other) ==
    LET x_diff == other.x - self.x
        y_diff == other.y - self.y
    IN  x_diff * x_diff + y_diff * y_diff

RECURSIVE SqrtSearch(_, _, _)
SqrtSearch(n, lo, hi) ==
    IF lo >= hi THEN lo
    ELSE LET mid == (lo + hi + 1) \div 2
         IN  IF mid * mid <= n THEN SqrtSearch(n, mid, hi) ELSE SqrtSearch(n, lo, mid - 1)

\* f64::sqrt of an integer n, in units of 1/Scale
Sqrt(n) == SqrtSearch(n * Scale * Scale, 0, 46340)

\* in units of 1/Scale
dist_to(self, other) == Sqrt(square_dist_to(self, other))

Area(w, h) == [width |-> w, height |-> h]

Rect_from_points(point1, point2) ==
    LET min_x == IF point1.x <= point2.x THEN point1.x ELSE point2.x
        max_x == IF point1.x <= point2.x THEN point2.x ELSE point1.x
        min_y == IF point1.y <= point2.y THEN point1.y ELSE point2.y
        max_y == IF point1.y <= point2.y THEN point2.y ELSE point1.y
    IN  [kind |-> "Rect", min_point |-> Point(min_x, min_y),
         size |-> Area(max_x - min_x, max_y - min_y)]

max_point(self) ==
    Point(self.min_point.x + self.size.width, self.min_point.y + self.size.height)

Rect_contains_half_open(self, point) ==
    /\ point.x >= self.min_point.x
    /\ point.y >= self.min_point.y
    /\ point.x < max_point(self).x
    /\ point.y < max_point(self).y

Rect_contains(self, point) ==
    /\ point.x >= self.min_point.x
    /\ point.y >= self.min_point.y
    /\ point.x <= max_point(self).x
    /\ point.y <= max_point(self).y

(***************************************************************************)
(* Transformations  (shapes.rs).  An angle is a number of quarter turns,   *)
(* so that cos and sin are -1, 0 or 1; a scale factor is a ratio num/den   *)
(* of integers, a power of two in the inputs, so that every product is an  *)
(* integer and exact in f64.                                               *)
(***************************************************************************)
ORIGIN == Point(0, 0)

Cos(angle) == CASE angle % 4 = 0 -> 1 [] angle % 4 = 2 -> -1 [] OTHER -> 0
Sin(angle) == CASE angle % 4 = 1 -> 1 [] angle % 4 = 3 -> -1 [] OTHER -> 0

Ratio(n, d) == [num |-> n, den |-> d]
Times(r, v) == (r.num * v) \div r.den
\* (1.0_f64).div(r)
Recip(r) == IF r.num < 0 THEN Ratio(-r.den, -r.num) ELSE Ratio(r.den, r.num)

Translation(p) == [kind |-> "Translation", new_origin |-> p]
Translation_identity == Translation(ORIGIN)
Translation_to(new_origin) == Translation(new_origin)

Translation_transform(self, point) ==
    Point(point.x + self.new_origin.x, point.y + self.new_origin.y)

Translation_get_inverse(self) ==
    Translation(Point(-self.new_origin.x, -self.new_origin.y))

Rotation(a, c) == [kind |-> "Rotation", angle |-> a, center_of_rotation |-> c]
Rotation_rot_origin(angle) == Rotation(angle, Translation_identity)
Rotation_identity == Rotation_rot_origin(0)
Rotation_rotate(angle, center_of_rotation) ==
    Rotation(angle, Translation_to(center_of_rotation))

Rotation_transform(self, point) ==
    LET rotatable_point == Translation_transform(self.center_of_rotation, point)
        rotated_point == Point(Cos(self.angle) * rotatable_point.x,
                               Sin(self.angle) * rotatable_point.y)
    IN  Translation_transform(Translation_get_inverse(self.center_of_rotation), rotated_point)

Rotation_get_inverse(self) == Rotation(-self.angle, self.center_of_rotation)

Scale_(f, s) == [kind |-> "Scale", fixed_point |-> f, scalar |-> s]
Scale_by_from(scalar, from) == Scale_(Translation_to(from), scalar)
Scale_by(scalar) == Scale_by_from(scalar, ORIGIN)

\* Area::EMPTY as a scalar: both factors are 0.
Area_EMPTY == Area(Ratio(0, 1), Ratio(0, 1))
Scale_identity == Scale_by(Area_EMPTY)

Scale_transform(self, point) ==
    LET scalable_point == Translation_transform(self.fixed_point, point)
        scaled_point == Point(Times(self.scalar.width, scalable_point.x),
                              Times(self.scalar.height, scalable_point.y))
    IN  Translation_transform(Translation_get_inverse(self.fixed_point), scaled_point)

Scale_get_inverse(self) ==
    Scale_(self.fixed_point, Area(Recip(self.scalar.width), Recip(self.scalar.height)))

\* Transform for Transformation
transform(self, point) ==
    CASE self.kind = "Rotation" -> Rotation_transform(self, point)
      [] self.kind = "Translation" -> Translation_transform(self, point)
      [] self.kind = "Scale" -> Scale_transform(self, point)

get_inverse(self) ==
    CASE self.kind = "Rotation" -> Rotation_get_inverse(self)
      [] self.kind = "Translation" -> Translation_get_inverse(self)
      [] self.kind = "Scale" -> Scale_get_inverse(self)

inverse_transform(self, point) == transform(get_inverse(self), point)

(***************************************************************************)
(* Ellipse and TransformedShape  (shapes.rs)                               *)
(***************************************************************************)
Value(v) == [tag |-> "ok", value |-> v]

Ellipse(c, a) == [kind |-> "Ellipse", center |-> c, bounding_area |-> a]

Ellipse_circle(center, radius) == Value(Ellipse(center, Area(radius * 2, radius * 2)))

\* compute_part(test_val, center_val, width / 2.) = numer_sqrt^2 / radius^2,
\* kept as the fraction 4 numer_sqrt^2 / width^2; a zero radius gives
\* 0/0 = NaN when numer_sqrt is 0 and +infinity otherwise
compute_part(test_val, center_val, width) ==
    LET numer_sqrt == test_val - center_val
    IN  [nan |-> width = 0 /\ numer_sqrt = 0,
         inf |-> width = 0 /\ numer_sqrt # 0,
         num |-> 4 * numer_sqrt * numer_sqrt,
         den |-> width * width]

SumAtMostOne_cross_multiplied(x_part, y_part) ==
    x_part.num * y_part.den + y_part.num * x_part.den <= x_part.den * y_part.den

\* x_part + y_part <= 1. is false when the sum is NaN or +infinity
SumAtMostOne(x_part, y_part) ==
    /\ ~x_part.nan /\ ~y_part.nan
    /\ ~x_part.inf /\ ~y_part.inf
    /\ x_part.num * y_part.den + y_part.num * x_part.den <= x_part.den * y_part.den

Ellipse_contains(self, point) ==
    LET x_part == compute_part(point.x, self.center.x, self.bounding_area.width)
        y_part == compute_part(point.y, self.center.y, self.bounding_area.height)
    IN  SumAtMostOne(x_part, y_part)

TransformedShape(inner, t) ==
    [kind |-> "TransformedShape", inner_shape |-> inner, transformation |-> t]

RECURSIVE Shape_contains(_, _)

TransformedShape_contains(self, point) ==
    Shape_contains(self.inner_shape, transform(self.transformation, point))

\* CheckInside for Shape
Shape_contains(self, point) ==
    CASE self.kind = "Rect" -> Rect_contains(self, point)
      [] self.kind = "Ellipse" -> Ellipse_contains(self, point)
      [] self.kind = "TransformedShape" -> TransformedShape_contains(self, point)

(***************************************************************************)
(* mix and LinearGradient  (coloring.rs).  Weights are in units of 1/Scale *)
(***************************************************************************)
Clamp(v, lo, hi) == IF v < lo THEN lo ELSE IF v > hi THEN hi ELSE v

RECURSIVE RunningSum(_, _)
\* the running sum of one channel over color_weights, in units of 1/Scale
RunningSum(color_weights, ch) ==
    IF color_weights = <<>> THEN 0
    ELSE color_weights[1][1][ch] * color_weights[1][2]
         + RunningSum(Tail(color_weights), ch)

\* clamp to [0., 255.], then the cast "as u8" truncates
MixChannel(color_weights, ch) ==
    Clamp(RunningSum(color_weights, ch), 0, U8_MAX * Scale) \div Scale

\* Color for TransparentColor
mix(color_weights) ==
    TransparentColor(MixChannel(color_weights, "red"),
                     MixChannel(color_weights, "green"),
                     MixChannel(color_weights, "blue"),
                     MixChannel(color_weights, "alpha"))

Pole(p, c) == [point |-> p, color |-> c]

LinearGradient(p1, p2) == [kind |-> "LinearGradient", pole1 |-> p1, pole2 |-> p2]

PolesMustBeDistinct == [tag |-> "panic", msg |-> "Gradient poles must be distinct"]

with_poles_as_given(pole1, pole2) ==
    IF pole1.point.x = pole2.point.x /\ pole1.point.y = pole2.point.y
    THEN PolesMustBeDistinct
    ELSE [tag |-> "ok", value |-> LinearGradient(pole1, pole2)]

with_poles(pole1, pole2) ==
    IF pole1.point.x = pole2.point.x
    THEN IF pole1.point.y = pole2.point.y THEN PolesMustBeDistinct
         ELSE IF pole1.point.y < pole2.point.y
              THEN [tag |-> "ok", value |-> LinearGradient(pole1, pole2)]
              ELSE [tag |-> "ok", value |-> LinearGradient(pole2, pole1)]
    ELSE IF pole1.point.x < pole2.point.x
         THEN [tag |-> "ok", value |-> LinearGradient(pole1, pole2)]
         ELSE [tag |-> "ok", value |-> LinearGradient(pole2, pole1)]

\* the weights handed to mix, in units of 1/Scale
GradientWeights(self, point) ==
    LET dist1 == dist_to(point, self.pole1.point)
        dist2 == dist_to(point, self.pole2.point)
        total_dist == dist1 + dist2
        portion1 == (dist1 * Scale) \div total_dist
        portion2 == Scale - portion1
    IN  <<  <<self.pole1.color, portion1>>, <<self.pole2.color, portion2>>  >>

LinearGradient_sample_color_x_only(self, point) ==
    IF point.x < self.pole1.point.x THEN self.pole1.color
    ELSE IF point.x > self.pole2.point.x THEN self.pole2.color
    ELSE mix(GradientWeights(self, point))

\* Coloring for LinearGradient
LinearGradient_sample_color(self, point) ==
    IF self.pole1.point.x = self.pole2.point.x /\ point.y < self.pole1.point.y
        THEN self.pole1.color
    ELSE IF self.pole1.point.x = self.pole2.point.x /\ point.y > self.pole2.point.y
        THEN self.pole2.color
    ELSE IF self.pole1.point.x # self.pole2.point.x /\ point.x < self.pole1.point.x
        THEN self.pole1.color
    ELSE IF self.pole1.point.x # self.pole2.point.x /\ point.x > self.pole2.point.x
        THEN self.pole2.color
    ELSE mix(GradientWeights(self, point))

(***************************************************************************)
(* ComplexGradient  (coloring.rs)                                          *)
(***************************************************************************)
ComplexGradient(p) == [kind |-> "ComplexGradient", poles |-> p]

ComplexGradient_new == ComplexGradient(<<>>)

OverlappingPoles == [tag |-> "panic", msg |-> "You cannot have two overlapping poles"]

add_pole_unchecked(self, location, color) ==
    [tag |-> "ok", value |-> ComplexGradient(Append(self.poles, Pole(location, color)))]

add_pole(self, location, color) ==
    IF \E i \in 1..Len(self.poles) : self.poles[i].point = location
    THEN OverlappingPoles
    ELSE [tag |-> "ok", value |-> ComplexGradient(Append(self.poles, Pole(location, color)))]

RECURSIVE SumDist(_, _)
\* the sum of point.dist_to(pole) over the poles, in units of 1/Scale
SumDist(poles, point) ==
    IF poles = <<>> THEN 0
    ELSE dist_to(point, poles[1].point) + SumDist(Tail(poles), point)

\* mix when every weight is 0.0 / 0.0 = NaN: each running sum is NaN,
\* NaN.clamp(0., 255.) is NaN and the cast NaN as u8 is 0
MixOfNaN == TransparentColor(0, 0, 0, 0)

\* Coloring for ComplexGradient
ComplexGradient_sample_color(self, point) ==
    LET total_dist == SumDist(self.poles, point)
        scaled_poles == [i \in 1..Len(self.poles) |->
                            <<self.poles[i].color,
                              (dist_to(point, self.poles[i].point) * Scale) \div total_dist>>]
    IN  IF self.poles # <<>> /\ total_dist = 0
        THEN MixOfNaN
        ELSE mix(scaled_poles)

\* Coloring for ColorScheme
sample_color(self, point) ==
    CASE self.kind = "LinearGradient" -> LinearGradient_sample_color(self, point)
      [] self.kind = "ComplexGradient" -> ComplexGradient_sample_color(self, point)

(***************************************************************************)
(* Image and draw_custom  (image_gen.rs).  The canvas is a sequence of     *)
(* SolidColor; index i of the source is element i + 1.                     *)
(***************************************************************************)
None == [kind |-> "None"]

DrawInstruction(shape, scheme) ==
    [pre_clip_noise |-> None, clipping_shape |-> shape, coloring |-> scheme,
     post_clip_noise |-> None, post_draw_noise |-> None]

with_size(width, height, background_color) ==
    [i \in 1..(width * height) |-> background_color]

canvas_height(cv, width) == Len(cv) \div width

get_index(width, x, y) == x + y * width

get_pixel(cv, width, x, y) == cv[get_index(width, x, y) + 1]

\* the pixel coordinates of index i, as the loops over y and x visit them
PixelPoint(width, i) == Point(i % width, i \div width)

\* new_layer after the sampling loop over y in 0..canvas_height, x in 0..width
SampledLayer(cv, width, instruction) ==
    [i \in 1..Len(cv) |->
        IF i <= canvas_height(cv, width) * width
        THEN sample_color(instruction.coloring, PixelPoint(width, i - 1))
        ELSE TRANSPARENT]

ClippedLayer_keeps_outside(new_layer, width, instruction) == new_layer

\* new_layer after the clipping loop over y in 0..canvas_height, x in 0..width
ClippedLayer(new_layer, width, instruction) ==
    [i \in 1..Len(new_layer) |->
        IF /\ i <= canvas_height(new_layer, width) * width
           /\ ~Shape_contains(instruction.clipping_shape, PixelPoint(width, i - 1))
        THEN TRANSPARENT
        ELSE new_layer[i]]

\* the canvas after the compositing loop
Composited(cv, new_layer) ==
    [i \in 1..Len(cv) |-> draw_on_solid(new_layer[i], cv[i])]

draw_custom_unclipped(cv, width, instruction) ==
    Composited(cv, SampledLayer(cv, width, instruction))

\* draw_custom with an instruction whose three noise operators are None
draw_custom(cv, width, instruction) ==
    Composited(cv, ClippedLayer(SampledLayer(cv, width, instruction), width, instruction))

(***************************************************************************)
(* Noise  (noise.rs) and Image::swap_pixels  (image_gen.rs).  A buffer is  *)
(* a pixel sequence with the canvas width; the points the sampler returns  *)
(* are the inputs of add_noise, in the order they are drawn                *)
(***************************************************************************)
BoundedNoise(b, density) == [kind |-> "BoundedNoise", bounds |-> b, swap_density |-> density]

\* the cast "as usize" of an integer-valued f64: negative values saturate to 0
AsUsize(v) == IF v < 0 THEN 0 ELSE v

IndexOutOfBounds(buffer) ==
    [tag |-> "panic", msg |-> "index out of bounds", value |-> buffer]

swap_pixels_overwrite(buffer, width, x1, y1, x2, y2) ==
    LET index1 == get_index(width, x1, y1) + 1
        index2 == get_index(width, x2, y2) + 1
    IN  IF index1 > Len(buffer) \/ index2 > Len(buffer)
        THEN IndexOutOfBounds(buffer)
        ELSE Value([buffer EXCEPT ![index1] = buffer[index2]])

\* both reads happen before the first write, so a failing index leaves the
\* buffer as it was
swap_pixels(buffer, width, x1, y1, x2, y2) ==
    LET index1 == get_index(width, x1, y1) + 1
        index2 == get_index(width, x2, y2) + 1
    IN  IF index1 > Len(buffer) \/ index2 > Len(buffer)
        THEN IndexOutOfBounds(buffer)
        ELSE Value([buffer EXCEPT ![index1] = buffer[index2], ![index2] = buffer[index1]])

MAX_RETRIES == 200

\* the sampler is the sequence of points it returns, repeated from its start
\* when it is exhausted; drawn counts the calls of sample_point() so far
sample_point(samples, drawn) == samples[(drawn % Len(samples)) + 1]

\* the test of the retry loop
InBounds(self, random_point) ==
    LET max_bound_point == max_point(self.bounds)
    IN  /\ Rect_contains(self.bounds, random_point)
        /\ random_point.x # max_bound_point.x
        /\ random_point.y # max_bound_point.y

\* "for _ in 0..MAX_RETRIES": every iteration tests the same random_point;
\* the loop returns it from the first iteration whose test holds, and the
\* statement after the loop returns it when no iteration did
RetryLoop(self, random_point) ==
    IF \E attempt \in 0..(MAX_RETRIES - 1) : InBounds(self, random_point)
    THEN random_point
    ELSE random_point

\* one call of sample_point(), before the loop; the result is the point and
\* the number of sampler calls made so far
sample_bounded_point(self, samples, drawn) ==
    [point |-> RetryLoop(self, sample_point(samples, drawn)), drawn |-> drawn + 1]

\* (total_iters as usize); swap_density is a Ratio of powers of two
total_iters(self, buffer, width) ==
    (width * canvas_height(buffer, width) * self.swap_density.num) \div self.swap_density.den

RECURSIVE SwapLoop(_, _, _, _, _, _, _)
\* "for _ in 0..(total_iters as usize)": swaps iterations are done, drawn
\* points have been taken from the sampler
SwapLoop(self, buffer, width, samples, iters, swaps, drawn) ==
    IF swaps >= iters
    THEN [tag |-> "ok", value |-> buffer, swaps |-> swaps, drawn |-> drawn]
    ELSE LET point1 == sample_bounded_point(self, samples, drawn)
             point2 == sample_bounded_point(self, samples, point1.drawn)
             swapped == swap_pixels(buffer, width,
                                    AsUsize(point1.point.x), AsUsize(point1.point.y),
                                    AsUsize(point2.point.x), AsUsize(point2.point.y))
         IN  IF swapped.tag = "panic"
             THEN [tag |-> "panic", msg |-> swapped.msg, value |-> buffer,
                   swaps |-> swaps, drawn |-> point2.drawn]
             ELSE SwapLoop(self, swapped.value, width, samples, iters, swaps + 1, point2.drawn)

BoundedNoise_add_noise(self, buffer, width, samples) ==
    SwapLoop(self, buffer, width, samples, total_iters(self, buffer, width), 0, 0)

\* "if let Some(noise) = ... { noise.add_noise(buffer, rng) }"
add_noise(noise, buffer, width, samples) ==
    IF noise = None THEN [tag |-> "ok", value |-> buffer, swaps |-> 0, drawn |-> 0]
    ELSE BoundedNoise_add_noise(noise, buffer, width, samples)

(***************************************************************************)
(* The colour algebra as a state machine: the arguments are drawn in Init, *)
(* each action is one call                                                 *)
(***************************************************************************)
NoCanvas == <<>>
NoHistory == <<>>

ColorArgs ==
    [self : TransparentSamples, base : TransparentSamples, canvas_color : SolidSamples]

InitColor ==
    /\ pc = "start"
    /\ args \in ColorArgs
    /\ ret = NotCalled
    /\ ret2 = NotCalled
    /\ canvas = NoCanvas
    /\ canvas_width = 0
    /\ history = NoHistory
    /\ gradient = None
    /\ frame = None

\* self.draw_on_solid(&canvas_color)
DrawOnSolid ==
    /\ pc = "start"
    /\ pc' = "draw_on_solid"
    /\ ret' = Returned(draw_on_solid(args.self, args.canvas_color))
    /\ UNCHANGED <<args, ret2, canvas, canvas_width, history, gradient, frame>>

\* self.draw_on(&base)
DrawOn ==
    /\ pc = "start"
    /\ pc' = "draw_on"
    /\ ret' = draw_on(args.self, args.base)
    /\ UNCHANGED <<args, ret2, canvas, canvas_width, history, gradient, frame>>

\* self.draw_over(base) of the legacy Color
DrawOver ==
    /\ pc = "start"
    /\ pc' = "draw_over"
    /\ ret' = draw_over(args.self, args.base)
    /\ UNCHANGED <<args, ret2, canvas, canvas_width, history, gradient, frame>>

\* base.draw_on_solid(&canvas_color), then self.draw_on_solid(&that)
DrawLayered ==
    /\ pc = "start"
    /\ pc' = "layered"
    /\ ret' = Returned(draw_on_solid(args.self, draw_on_solid(args.base, args.canvas_color)))
    /\ UNCHANGED <<args, ret2, canvas, canvas_width, history, gradient, frame>>

\* self.draw_on(&base).draw_on_solid(&canvas_color)
DrawCombined ==
    /\ pc = "layered"
    /\ pc' = "combined"
    /\ LET c == draw_on(args.self, args.base)
       IN  ret2' = IF c.tag = "ok"
                   THEN Returned(draw_on_solid(c.color, args.canvas_color))
                   ELSE c
    /\ UNCHANGED <<args, ret, canvas, canvas_width, history, gradient, frame>>

NextColor == DrawOnSolid \/ DrawOn \/ DrawOver \/ DrawLayered \/ DrawCombined

SpecColor == InitColor /\ [][NextColor]_vars

(***************************************************************************)
(* draw_on_solid on every pair of channel values                           *)
(***************************************************************************)
OpaqueArgs ==
    [self : {TransparentColor(SolidSample(c).red, SolidSample(c).green, SolidSample(c).blue, a) :
                 c \in Byte, a \in AlphaSamples} \cup {TRANSPARENT},
     base : {TRANSPARENT},
     canvas_color : {SolidSample(c) : c \in Byte}]

InitOpaque ==
    /\ pc = "start"
    /\ args \in OpaqueArgs
    /\ ret = NotCalled
    /\ ret2 = NotCalled
    /\ canvas = NoCanvas
    /\ canvas_width = 0
    /\ history = NoHistory
    /\ gradient = None
    /\ frame = None

NextOpaque == DrawOnSolid

SpecOpaque == InitOpaque /\ [][NextOpaque]_vars

(***************************************************************************)
(* draw_on and draw_over on every pair of alphas                           *)
(***************************************************************************)
AlphaArgs ==
    [self : {TransparentColor(200, 100, 50, a) : a \in Byte},
     base : {TransparentColor(10, 128, 255, a) : a \in Byte},
     canvas_color : {BLACK}]

InitAlpha ==
    /\ pc = "start"
    /\ args \in AlphaArgs
    /\ ret = NotCalled
    /\ ret2 = NotCalled
    /\ canvas = NoCanvas
    /\ canvas_width = 0
    /\ history = NoHistory
    /\ gradient = None
    /\ frame = None

NextAlpha == DrawOn \/ DrawOver

SpecAlpha == InitAlpha /\ [][NextAlpha]_vars

(***************************************************************************)
(* Claims on the colour algebra                                            *)
(***************************************************************************)

\* C1: a transparent colour of alpha 255 drawn over any opaque colour with
\* draw_on_solid gives exactly its own red, green and blue.
C1_FullOpacityOverwrites ==
    (pc = "draw_on_solid" /\ args.self.alpha = U8_MAX)
        => ret = Returned(as_solid(args.self))

C1_Witness ==
    /\ pc = "draw_on_solid"
    /\ args.self.alpha = U8_MAX
    /\ args.canvas_color.red # args.self.red
    /\ ret.tag = "ok"

\* C2: TransparentColor::TRANSPARENT drawn over any opaque colour with
\* draw_on_solid gives that opaque colour back, all three channels.
C2_TransparentIsNoOp ==
    (pc = "draw_on_solid" /\ args.self = TRANSPARENT)
        => ret = Returned(args.canvas_color)

C2_Witness ==
    /\ pc = "draw_on_solid"
    /\ args.self = TRANSPARENT
    /\ args.canvas_color.red = 255
    /\ ret.tag = "ok"

SameChannels(c, d) == c.red = d.red /\ c.green = d.green /\ c.blue = d.blue

\* C3: draw_on with combined alpha 0 (both alphas 0) does not divide by
\* zero and returns the base colour's channel values.
C3_ZeroAlphaReturnsBase ==
    (pc = "draw_on" /\ args.self.alpha = 0 /\ args.base.alpha = 0)
        => (ret.tag = "ok" /\ SameChannels(ret.color, args.base))

Abs(n) == IF n < 0 THEN -n ELSE n

Within1(c, d) ==
    /\ Abs(c.red - d.red) <= 1
    /\ Abs(c.green - d.green) <= 1
    /\ Abs(c.blue - d.blue) <= 1

\* C4: T1 over C and then T2 over the result (two draw_on_solid calls) is
\* within 1 per channel of the combined colour T2.draw_on(T1) drawn over C.
C4_LayeredMatchesCombined ==
    pc = "combined" => (ret2.tag = "ok" /\ Within1(ret.color, ret2.color))

DocumentedAlpha(a_over, a_base) ==
    U8_MAX - ((U8_MAX - a_over) * (U8_MAX - a_base)) \div U8_MAX

InitHex ==
    /\ pc = "start"
    /\ args \in [hex_code : HexInputs]
    /\ ret = NotCalled
    /\ ret2 = NotCalled
    /\ canvas = NoCanvas
    /\ canvas_width = 0
    /\ history = NoHistory
    /\ gradient = None
    /\ frame = None

\* TransparentColor::from_hex_code(hex_code)
TransparentFromHexCode ==
    /\ pc = "start"
    /\ pc' = "TransparentColor::from_hex_code"
    /\ ret' = TransparentColor_from_hex_code(args.hex_code)
    /\ UNCHANGED <<args, ret2, canvas, canvas_width, history, gradient, frame>>

\* SolidColor::from_hex_code(hex_code)
SolidFromHexCode ==
    /\ pc = "start"
    /\ pc' = "SolidColor::from_hex_code"
    /\ ret' = SolidColor_from_hex_code(args.hex_code)
    /\ UNCHANGED <<args, ret2, canvas, canvas_width, history, gradient, frame>>

NextHex == TransparentFromHexCode \/ SolidFromHexCode

SpecHex == InitHex /\ [][NextHex]_vars

(***************************************************************************)
(* Claims on the hex-code constructors                                     *)
(***************************************************************************)
AllHexDigits(str) == \A i \in 1..Len(str) : IsHexDigit(str[i])

\* a valid code after stripping: 6 or 8 characters, all hexadecimal digits
ValidCode(str, n) == Len(str) = n /\ AllHexDigits(str)

\* the value of the two hexadecimal digits at 0-based positions k, k+1
PairValue(str, k) == 16 * DigitValue(str[k + 1]) + DigitValue(str[k + 2])

\* C6: TransparentColor::from_hex_code on a valid RRGGBBAA gives red RR,
\* green GG, blue BB and alpha AA; on a valid 6-digit code alpha 255; and the
\* same result with or without a leading '#'.
C6_TransparentHexParsed ==
    pc = "TransparentColor::from_hex_code" =>
        LET body == StripHash(args.hex_code)
        IN  /\ ValidCode(body, 8) =>
                 ret = Returned(TransparentColor(PairValue(body, 0), PairValue(body, 2),
                                                 PairValue(body, 4), PairValue(body, 6)))
            /\ ValidCode(body, 6) =>
                 ret = Returned(TransparentColor(PairValue(body, 0), PairValue(body, 2),
                                                 PairValue(body, 4), U8_MAX))
            /\ (ValidCode(body, 6) \/ ValidCode(body, 8)) =>
                 /\ ret = TransparentColor_from_hex_code(body)
                 /\ ret = TransparentColor_from_hex_code(<<"#">> \o body)

\* C7: both constructors reject every input whose length after stripping an
\* optional '#' is neither 6 nor 8 and every input with a character that is
\* not a hexadecimal digit, at any position.
C7_MalformedHexRejected ==
    pc \in {"TransparentColor::from_hex_code", "SolidColor::from_hex_code"} =>
        LET body == StripHash(args.hex_code)
        IN  (Len(body) \notin {6, 8} \/ ~AllHexDigits(body)) => ret.tag = "panic"

\* C8: SolidColor::from_hex_code on a valid RRGGBBAA fails with the
\* alpha-not-allowed error when AA is not FF and returns (RR, GG, BB) when
\* AA is FF.
C8_SolidHexAlpha ==
    pc = "SolidColor::from_hex_code" =>
        LET body == StripHash(args.hex_code)
        IN  ValidCode(body, 8) =>
               IF PairValue(body, 6) = U8_MAX
               THEN ret = Returned(SolidColor(PairValue(body, 0), PairValue(body, 2),
                                              PairValue(body, 4)))
               ELSE ret = AlphaNotAllowed

(***************************************************************************)
(* LinearGradient as a state machine: with_poles, then sample_color        *)
(***************************************************************************)
MaxCoord == 3     \* largest pole and pixel coordinate

WHITE_T == TransparentColor(255, 255, 255, 255)
BLACK_T == TransparentColor(0, 0, 0, 255)
RED_HALF == TransparentColor(255, 0, 0, 128)

PoleColors == {WHITE_T, BLACK_T, RED_HALF}

GridPoints == {Point(px, py) : px \in 0..MaxCoord, py \in 0..MaxCoord}
SamplePoints == {Point(px, py) : px \in (-1)..(MaxCoord + 1), py \in (-1)..(MaxCoord + 1)}

GradientArgs ==
    [pole1 : {Pole(p, c) : p \in GridPoints, c \in PoleColors},
     pole2 : {Pole(p, c) : p \in GridPoints, c \in {WHITE_T, BLACK_T}},
     point : SamplePoints]

InitGradient ==
    /\ pc = "start"
    /\ args \in GradientArgs
    /\ ret = NotCalled
    /\ ret2 = NotCalled
    /\ canvas = NoCanvas
    /\ canvas_width = 0
    /\ history = NoHistory
    /\ gradient = None
    /\ frame = None

\* LinearGradient::with_poles(pole1, pole2)
WithPoles ==
    /\ pc = "start"
    /\ pc' = "with_poles"
    /\ ret' = with_poles(args.pole1, args.pole2)
    /\ UNCHANGED <<args, ret2, canvas, canvas_width, history, gradient, frame>>

\* gradient.sample_color(&point) on the gradient with_poles returned
SampleColor ==
    /\ pc = "with_poles"
    /\ ret.tag = "ok"
    /\ pc' = "sample_color"
    /\ ret2' = Returned(sample_color(ret.value, args.point))
    /\ UNCHANGED <<args, ret, canvas, canvas_width, history, gradient, frame>>

NextGradient == WithPoles \/ SampleColor

SpecGradient == InitGradient /\ [][NextGradient]_vars

\* C9: sample_color at pole1's location returns pole1's colour and at
\* pole2's location pole2's colour, for every gradient built by with_poles.
C9_PolesKeepTheirColour ==
    pc = "sample_color" =>
        /\ args.point = ret.value.pole1.point => ret2.color = ret.value.pole1.color
        /\ args.point = ret.value.pole2.point => ret2.color = ret.value.pole2.color

(***************************************************************************)
(* Image as a state machine: with_size, then draw_custom calls             *)
(***************************************************************************)
MaxDraws == 2     \* draw_custom calls on one Image

SOLID_BLUE == SolidColor(0, 0, 255)

CanvasSizes == {MaxCoord, MaxCoord + 1}

DrawGradients ==
    {with_poles(Pole(Point(0, 0), WHITE_T), Pole(Point(MaxCoord, MaxCoord), BLACK_T)).value,
     with_poles(Pole(Point(0, MaxCoord), WHITE_T), Pole(Point(0, 0), RED_HALF)).value}

\* the centre of the largest canvas
CanvasCentre == Point((MaxCoord + 1) \div 2, (MaxCoord + 1) \div 2)

DrawShapes ==
    {Rect_from_points(Point(0, 0), Point(MaxCoord, MaxCoord)),
     Rect_from_points(Point(2, 2), Point(1, 1)),
     Ellipse_circle(CanvasCentre, 0).value,
     Ellipse_circle(CanvasCentre, 1).value}

DrawInstructions == {DrawInstruction(sh, g) : sh \in DrawShapes, g \in DrawGradients}

InitDraw ==
    /\ pc = "with_size"
    /\ args \in [width : CanvasSizes, height : CanvasSizes, background : {BLACK, SOLID_BLUE}]
    /\ ret = NotCalled
    /\ ret2 = NotCalled
    /\ canvas = with_size(args.width, args.height, args.background)
    /\ canvas_width = args.width
    /\ history = NoHistory
    /\ gradient = None
    /\ frame = None

\* image.draw_custom(instruction, rng)
DrawCustom ==
    /\ Len(history) < MaxDraws
    /\ \E instruction \in DrawInstructions :
          /\ canvas' = draw_custom(canvas, canvas_width, instruction)
          /\ history' = Append(history, instruction)
    /\ pc' = "draw_custom"
    /\ UNCHANGED <<args, ret, ret2, canvas_width, gradient, frame>>

NextDraw == DrawCustom

SpecDraw == InitDraw /\ [][NextDraw]_vars

Brightness(c) == c.red + c.green + c.blue

\* C10: on a 4x4 black canvas one draw_custom with a LinearGradient from
\* (0,0)=white to (3,3)=black and a clip Rect covering the canvas leaves
\* pixel (0,0) white, pixel (3,3) black, and the brightness of
\* (0,0),(1,1),(2,2),(3,3) non-increasing.
C10_DiagonalGradientScenario ==
    ( /\ canvas_width = 4
      /\ Len(canvas) = 16
      /\ args.background = BLACK
      /\ history = << DrawInstruction(
                         Rect_from_points(Point(0, 0), Point(3, 3)),
                         with_poles(Pole(Point(0, 0), WHITE_T),
                                    Pole(Point(3, 3), BLACK_T)).value) >> )
    => /\ get_pixel(canvas, canvas_width, 0, 0) = SolidColor(255, 255, 255)
       /\ get_pixel(canvas, canvas_width, 3, 3) = BLACK
       /\ \A i \in 0..2 :
             Brightness(get_pixel(canvas, canvas_width, i, i))
                >= Brightness(get_pixel(canvas, canvas_width, i + 1, i + 1))

(***************************************************************************)
(* Claims on LinearGradient::with_poles and the saturation of sample_color *)
(***************************************************************************)
\* p is before q in the order "by x, then by y"
LexLess(p, q) == p.x < q.x \/ (p.x = q.x /\ p.y < q.y)

\* C11: with_poles stores the poles so that pole1 has the smaller x, or the
\* smaller y when the x are equal, whichever order the caller passed them
\* in, and fails when the two locations are equal.
C11_PolesOrdered ==
    pc \in {"with_poles", "sample_color"} =>
        IF args.pole1.point = args.pole2.point
        THEN ret.tag = "panic"
        ELSE /\ ret.tag = "ok"
             /\ LexLess(ret.value.pole1.point, ret.value.pole2.point)
             /\ {ret.value.pole1, ret.value.pole2} = {args.pole1, args.pole2}

C11_Witness ==
    /\ pc = "with_poles"
    /\ args.pole1.point.x = args.pole2.point.x
    /\ args.pole1.point.y > args.pole2.point.y
    /\ ret.tag = "ok"
    /\ ret.value.pole1 = args.pole2
    /\ ret.value.pole2 = args.pole1

\* the coordinate of p on the gradient axis: y when the poles share x, else x
AxisCoord(grad, p) == IF grad.pole1.point.x = grad.pole2.point.x THEN p.y ELSE p.x

\* C12: sample_color at a point whose axis coordinate is below pole1's
\* returns pole1's colour unchanged, above pole2's returns pole2's colour.
C12_Saturates ==
    pc = "sample_color" =>
        /\ AxisCoord(ret.value, args.point) < AxisCoord(ret.value, ret.value.pole1.point)
              => ret2 = Returned(ret.value.pole1.color)
        /\ AxisCoord(ret.value, args.point) > AxisCoord(ret.value, ret.value.pole2.point)
              => ret2 = Returned(ret.value.pole2.color)

C12_Witness ==
    /\ pc = "sample_color"
    /\ ret.value.pole1.point.x = ret.value.pole2.point.x
    /\ args.point.y > ret.value.pole2.point.y
    /\ args.point.x < ret.value.pole1.point.x
    /\ ret.value.pole1.color # ret.value.pole2.color
    /\ ret2 = Returned(ret.value.pole2.color)

(***************************************************************************)
(* ComplexGradient as a state machine: new, add_pole calls, sample_color   *)
(***************************************************************************)
MaxPoles == 3     \* add_pole calls on one ComplexGradient

ComplexPoints == {Point(0, 0), Point(MaxCoord, 0), Point(1, 2)}
ComplexColors == {WHITE_T, RED_HALF}

InitComplex ==
    /\ pc = "new"
    /\ args \in [point : ComplexPoints \cup {Point(1, 1)}]
    /\ ret = NotCalled
    /\ ret2 = NotCalled
    /\ canvas = NoCanvas
    /\ canvas_width = 0
    /\ history = NoHistory
    /\ gradient = ComplexGradient_new
    /\ frame = None

\* gradient.add_pole(location, color); a panic ends the program
AddPole ==
    /\ pc \in {"new", "add_pole"}
    /\ Len(history) < MaxPoles
    /\ \E location \in ComplexPoints, color \in ComplexColors :
          LET r == add_pole(gradient, location, color)
          IN  /\ history' = Append(history, Pole(location, color))
              /\ ret' = [tag |-> r.tag]
              /\ gradient' = IF r.tag = "ok" THEN r.value ELSE gradient
              /\ pc' = IF r.tag = "ok" THEN "add_pole" ELSE "panicked"
    /\ UNCHANGED <<args, ret2, canvas, canvas_width, frame>>

\* gradient.sample_color(&point)
ComplexSampleColor ==
    /\ pc \in {"new", "add_pole"}
    /\ pc' = "complex_sample_color"
    /\ ret2' = Returned(sample_color(gradient, args.point))
    /\ UNCHANGED <<args, ret, canvas, canvas_width, history, gradient, frame>>

NextComplex == AddPole \/ ComplexSampleColor

SpecComplex == InitComplex /\ [][NextComplex]_vars

\* the add_pole calls that returned, in call order
ReturnedCalls == IF pc = "panicked" THEN SubSeq(history, 1, Len(history) - 1) ELSE history

\* C13: after any sequence of add_pole calls no two stored poles share a
\* location and the poles are in insertion order; an add_pole at an existing
\* location fails and adds nothing.
C13_PolesDistinctInOrder ==
    /\ \A i, j \in 1..Len(gradient.poles) :
          i # j => gradient.poles[i].point # gradient.poles[j].point
    /\ gradient.poles = ReturnedCalls
    /\ pc = "panicked" =>
          \E i \in 1..Len(gradient.poles) :
              gradient.poles[i].point = history[Len(history)].point

C13_Witness ==
    /\ pc = "panicked"
    /\ Len(gradient.poles) = 2
    /\ history[3].point = gradient.poles[1].point
    /\ history[3].color # gradient.poles[1].color

\* C14: ComplexGradient::sample_color at a point equal to one pole's
\* location returns that pole's colour (weight 1 for it, 0 for the others),
\* also for a single-pole gradient.
C14_CoincidentPoleWins ==
    pc = "complex_sample_color" =>
        \A i \in 1..Len(gradient.poles) :
            gradient.poles[i].point = args.point => ret2 = Returned(gradient.poles[i].color)

(***************************************************************************)
(* Transformations and TransformedShape as a state machine                 *)
(***************************************************************************)
MaxTurn == 2      \* largest angle, in quarter turns

Offsets == {ORIGIN, Point(1, 0), Point(-1, 2)}
Factors == {Ratio(1, 1), Ratio(2, 1), Ratio(-1, 1)}

Transformations ==
    {Translation_to(d) : d \in Offsets}
    \cup {Rotation_rotate(a, c) : a \in (-1)..MaxTurn, c \in Offsets}
    \cup {Scale_by_from(Area(fw, fh), f) : fw \in Factors, fh \in Factors, f \in Offsets}

InnerShapes ==
    {Rect_from_points(ORIGIN, Point(2, 1)), Rect_from_points(Point(1, 1), Point(MaxCoord, 2))}

InitTransform ==
    /\ pc = "start"
    /\ args \in [t : Transformations, inner : InnerShapes, point : SamplePoints]
    /\ ret = NotCalled
    /\ ret2 = NotCalled
    /\ canvas = NoCanvas
    /\ canvas_width = 0
    /\ history = NoHistory
    /\ gradient = None
    /\ frame = None

\* t.transform(&point)
Transform ==
    /\ pc = "start"
    /\ pc' = "transform"
    /\ ret' = Value(transform(args.t, args.point))
    /\ UNCHANGED <<args, ret2, canvas, canvas_width, history, gradient, frame>>

\* t.inverse_transform(&q) on the point q that transform returned
InverseTransform ==
    /\ pc = "transform"
    /\ pc' = "inverse_transform"
    /\ ret2' = Value(inverse_transform(args.t, ret.value))
    /\ UNCHANGED <<args, ret, canvas, canvas_width, history, gradient, frame>>

\* TransformedShape{inner_shape, transformation: t}.contains(&point)
TransformedContains ==
    /\ pc = "start"
    /\ pc' = "contains"
    /\ ret' = Value(Shape_contains(TransformedShape(args.inner, args.t), args.point))
    /\ UNCHANGED <<args, ret2, canvas, canvas_width, history, gradient, frame>>

NextTransform == Transform \/ InverseTransform \/ TransformedContains

SpecTransform == InitTransform /\ [][NextTransform]_vars

\* C15: a TransformedShape with inner shape S and transformation t contains
\* p exactly when S contains t's inverse applied to p; a Rect wrapped in a
\* translation by d contains p exactly when the Rect contains p - d.
C15_TransformedShapeUsesInverse ==
    pc = "contains" =>
        /\ ret.value = Shape_contains(args.inner, inverse_transform(args.t, args.point))
        /\ args.t.kind = "Translation" =>
              ret.value = Rect_contains(args.inner,
                                        Point(args.point.x - args.t.new_origin.x,
                                              args.point.y - args.t.new_origin.y))

\* C16: for every point p and every Translation, Rotation and Scale with
\* non-zero factors t, t.inverse_transform(t.transform(p)) equals p.
C16_TransformRoundTrip ==
    pc = "inverse_transform" => ret2.value = args.point

(***************************************************************************)
(* Rect as a state machine: from_points, then contains                     *)
(***************************************************************************)
InitRect ==
    /\ pc = "start"
    /\ args \in [point1 : GridPoints, point2 : GridPoints, point : SamplePoints]
    /\ ret = NotCalled
    /\ ret2 = NotCalled
    /\ canvas = NoCanvas
    /\ canvas_width = 0
    /\ history = NoHistory
    /\ gradient = None
    /\ frame = None

\* Rect::from_points(&point1, &point2)
RectFromPoints ==
    /\ pc = "start"
    /\ pc' = "from_points"
    /\ ret' = Value(Rect_from_points(args.point1, args.point2))
    /\ UNCHANGED <<args, ret2, canvas, canvas_width, history, gradient, frame>>

\* rect.contains(&point) on the Rect from_points returned
RectContains ==
    /\ pc = "from_points"
    /\ pc' = "rect_contains"
    /\ ret2' = Value(Shape_contains(ret.value, args.point))
    /\ UNCHANGED <<args, ret, canvas, canvas_width, history, gradient, frame>>

NextRect == RectFromPoints \/ RectContains

SpecRect == InitRect /\ [][NextRect]_vars

Between(v, a, b) == (a <= v /\ v <= b) \/ (b <= v /\ v <= a)

\* C17: Rect::from_points(p1, p2).contains(p) is true exactly when p.x lies
\* between the two x values and p.y between the two y values, bounds
\* included, whichever order p1 and p2 are given in.
C17_RectIsClosedBox ==
    pc = "rect_contains" =>
        (ret2.value <=> /\ Between(args.point.x, args.point1.x, args.point2.x)
                        /\ Between(args.point.y, args.point1.y, args.point2.y))

C17_Witness ==
    /\ pc = "rect_contains"
    /\ args.point1.x > args.point2.x
    /\ args.point1.y < args.point2.y
    /\ args.point = Point(args.point1.x, args.point2.y)
    /\ ret2.value

(***************************************************************************)
(* Ellipse as a state machine: circle, then contains                       *)
(***************************************************************************)
InitEllipse ==
    /\ pc = "start"
    /\ args \in [center : {ORIGIN, Point(1, 2)}, radius : (-1)..MaxCoord, point : SamplePoints]
    /\ ret = NotCalled
    /\ ret2 = NotCalled
    /\ canvas = NoCanvas
    /\ canvas_width = 0
    /\ history = NoHistory
    /\ gradient = None
    /\ frame = None

\* Ellipse::circle(center, radius)
EllipseCircle ==
    /\ pc = "start"
    /\ pc' = "circle"
    /\ ret' = Ellipse_circle(args.center, args.radius)
    /\ UNCHANGED <<args, ret2, canvas, canvas_width, history, gradient, frame>>

\* ellipse.contains(&point) on the Ellipse circle returned
EllipseContains ==
    /\ pc = "circle"
    /\ ret.tag = "ok"
    /\ pc' = "ellipse_contains"
    /\ ret2' = Value(Shape_contains(ret.value, args.point))
    /\ UNCHANGED <<args, ret, canvas, canvas_width, history, gradient, frame>>

NextEllipse == EllipseCircle \/ EllipseContains

SpecEllipse == InitEllipse /\ [][NextEllipse]_vars

IsZeroRadiusEllipse(shape) ==
    /\ shape.kind = "Ellipse"
    /\ shape.bounding_area.width = 0
    /\ shape.bounding_area.height = 0

\* C18: a draw_custom call with no noise whose clip shape is an Ellipse of
\* radius 0 at the canvas centre leaves every canvas pixel as it was before
\* the call: no pixel point, the centre included, is in the ellipse.
C18_ZeroEllipseDrawsNothing ==
    [][ ( /\ Len(history') = Len(history) + 1
          /\ IsZeroRadiusEllipse(history'[Len(history')].clipping_shape) )
        => canvas' = canvas ]_vars

C18_Witness ==
    /\ Len(history) = 2
    /\ history[1].clipping_shape.kind = "Rect"
    /\ IsZeroRadiusEllipse(history[2].clipping_shape)
    /\ history[2].clipping_shape.center = Point(canvas_width \div 2, canvas_height(canvas, canvas_width) \div 2)
    /\ canvas_width = MaxCoord + 1
    /\ canvas # with_size(args.width, args.height, args.background)
    /\ ~Shape_contains(history[2].clipping_shape, history[2].clipping_shape.center)

\* C19: constructing an ellipse with a zero or negative radius fails at
\* construction; no Ellipse with a non-positive radius exists.
C19_NonPositiveRadiusRejected ==
    (pc \in {"circle", "ellipse_contains"} /\ args.radius <= 0) => ret.tag = "panic"

(***************************************************************************)
(* draw_custom step by step  (image_gen.rs:65-105): the sampling loop, the *)
(* pre-clip noise, the clipping loop, the post-clip noise, the compositing *)
(* loop and the post-draw noise, in program order.  frame holds the locals *)
(* of the call in progress                                                 *)
(***************************************************************************)
NoiseSide == 2    \* width and height of the canvas the noisy draws work on
MaxSamples == 3   \* length of the sequence of points the sampler repeats

\* points the sampler can return: inside the canvas, negative, and past the
\* last row
SamplerPoints ==
    {Point(0, 0), Point(1, 1), Point(-1, 1), Point(0, NoiseSide)}

CanvasNoise ==
    BoundedNoise(Rect_from_points(ORIGIN, Point(NoiseSide, NoiseSide)), Ratio(1, 4))

\* <<pre_clip_noise, post_clip_noise, post_draw_noise>>
NoiseChoices ==
    {<<None, None, None>>, <<CanvasNoise, None, None>>, <<None, CanvasNoise, None>>,
     <<None, None, CanvasNoise>>, <<CanvasNoise, CanvasNoise, CanvasNoise>>}

NoisyShapes ==
    {Rect_from_points(ORIGIN, Point(NoiseSide - 1, NoiseSide - 1)),
     Rect_from_points(ORIGIN, Point(0, NoiseSide - 1))}

NoisyGradient ==
    with_poles(Pole(ORIGIN, WHITE_T), Pole(Point(NoiseSide - 1, NoiseSide - 1), BLACK_T)).value

NoisyInstructions ==
    {[pre_clip_noise |-> n[1], clipping_shape |-> sh, coloring |-> NoisyGradient,
      post_clip_noise |-> n[2], post_draw_noise |-> n[3]] :
        n \in NoiseChoices, sh \in NoisyShapes}

\* the sequences of points one add_noise call can draw from the sampler:
\* two for each swap, up to the length the sampler repeats from
SampleSeqs(noise, buffer, width) ==
    IF noise = None THEN {<<>>}
    ELSE LET draws == 2 * total_iters(noise, buffer, width)
         IN  [1..(IF draws < MaxSamples THEN draws ELSE MaxSamples) -> SamplerPoints]

InitPipeline ==
    /\ pc = "with_size"
    /\ args = [width |-> NoiseSide, height |-> NoiseSide, background |-> BLACK]
    /\ ret = NotCalled
    /\ ret2 = NotCalled
    /\ canvas = with_size(args.width, args.height, args.background)
    /\ canvas_width = args.width
    /\ history = NoHistory
    /\ gradient = None
    /\ frame = None

\* lines 66-74: draw_custom is entered and new_layer is sampled
SampleLayer ==
    /\ pc \in {"with_size", "returned"}
    /\ Len(history) < MaxDraws
    /\ \E instruction \in NoisyInstructions :
          frame' = [instruction |-> instruction,
                    new_layer |-> SampledLayer(canvas, canvas_width, instruction)]
    /\ pc' = "sampled"
    /\ UNCHANGED <<args, ret, ret2, canvas, canvas_width, history, gradient>>

\* lines 76-78: noise.add_noise(new_layer, rng)
PreClipNoise ==
    /\ pc = "sampled"
    /\ \E samples \in SampleSeqs(frame.instruction.pre_clip_noise, frame.new_layer, canvas_width) :
          LET noised == add_noise(frame.instruction.pre_clip_noise, frame.new_layer,
                                  canvas_width, samples)
          IN  /\ frame' = [frame EXCEPT !.new_layer = noised.value]
              /\ IF noised.tag = "ok"
                 THEN pc' = "pre_clip_noised" /\ ret' = ret
                 ELSE pc' = "panicked" /\ ret' = Panic(noised.msg)
    /\ UNCHANGED <<args, ret2, canvas, canvas_width, history, gradient>>

\* lines 80-89: the clipping loop
ClipLayer ==
    /\ pc = "pre_clip_noised"
    /\ frame' = [frame EXCEPT !.new_layer = ClippedLayer(frame.new_layer, canvas_width,
                                                         frame.instruction)]
    /\ pc' = "clipped"
    /\ UNCHANGED <<args, ret, ret2, canvas, canvas_width, history, gradient>>

\* lines 92-94: noise.add_noise(self, rng)
PostClipNoise ==
    /\ pc = "clipped"
    /\ \E samples \in SampleSeqs(frame.instruction.post_clip_noise, canvas, canvas_width) :
          LET noised == add_noise(frame.instruction.post_clip_noise, canvas,
                                  canvas_width, samples)
          IN  /\ canvas' = noised.value
              /\ IF noised.tag = "ok"
                 THEN pc' = "post_clip_noised" /\ ret' = ret
                 ELSE pc' = "panicked" /\ ret' = Panic(noised.msg)
    /\ UNCHANGED <<args, ret2, canvas_width, history, gradient, frame>>

\* lines 96-98: the compositing loop
Composite ==
    /\ pc = "post_clip_noised"
    /\ canvas' = Composited(canvas, frame.new_layer)
    /\ pc' = "composited"
    /\ UNCHANGED <<args, ret, ret2, canvas_width, history, gradient, frame>>

\* lines 101-105: noise.add_noise(self, rng), then draw_custom returns
PostDrawNoise ==
    /\ pc = "composited"
    /\ \E samples \in SampleSeqs(frame.instruction.post_draw_noise, canvas, canvas_width) :
          LET noised == add_noise(frame.instruction.post_draw_noise, canvas,
                                  canvas_width, samples)
          IN  /\ canvas' = noised.value
              /\ IF noised.tag = "ok"
                 THEN /\ pc' = "returned"
                      /\ ret' = ret
                      /\ history' = Append(history, frame.instruction)
                 ELSE /\ pc' = "panicked"
                      /\ ret' = Panic(noised.msg)
                      /\ history' = history
    /\ UNCHANGED <<args, ret2, canvas_width, gradient, frame>>

NextPipeline ==
    \/ SampleLayer
    \/ PreClipNoise
    \/ ClipLayer
    \/ PostClipNoise
    \/ Composite
    \/ PostDrawNoise

SpecPipeline == InitPipeline /\ [][NextPipeline]_vars

\* C20: inside draw_custom the pre-clip and the post-clip noise work on the
\* scratch layer only, so no step up to and including the post-clip noise
\* changes the canvas: the canvas first changes in the compositing loop.
C20_CanvasUntouchedBeforeComposite ==
    [][ (pc \in {"with_size", "returned", "sampled", "pre_clip_noised", "clipped"})
            => (canvas' = canvas) ]_vars

(***************************************************************************)
(* BoundedNoise on an Image  (noise.rs): the image is built, one gradient  *)
(* is drawn on it so that its pixels differ, then the noise operator runs  *)
(***************************************************************************)
NoiseBounds ==
    {Rect_from_points(ORIGIN, Point(NoiseSide, NoiseSide)),
     Rect_from_points(ORIGIN, Point(NoiseSide + 1, NoiseSide + 2))}

SwapDensities == {Ratio(1, 4), Ratio(3, 8), Ratio(1, 1)}

NoiseArgs ==
    [width : {NoiseSide}, height : {NoiseSide, NoiseSide + 1},
     noise : {BoundedNoise(b, d) : b \in NoiseBounds, d \in SwapDensities},
     samples : [1..MaxSamples -> SamplerPoints]]

InitNoise ==
    /\ pc = "with_size"
    /\ args \in NoiseArgs
    /\ ret = NotCalled
    /\ ret2 = NotCalled
    /\ canvas = with_size(args.width, args.height, BLACK)
    /\ canvas_width = args.width
    /\ history = NoHistory
    /\ gradient = None
    /\ frame = None

NoiseBackdrop ==
    DrawInstruction(Rect_from_points(ORIGIN, Point(NoiseSide, NoiseSide)), NoisyGradient)

\* image.draw_custom(instruction, rng) with no noise
DrawBackdrop ==
    /\ pc = "with_size"
    /\ canvas' = draw_custom(canvas, canvas_width, NoiseBackdrop)
    /\ history' = Append(history, NoiseBackdrop)
    /\ pc' = "draw_custom"
    /\ UNCHANGED <<args, ret, ret2, canvas_width, gradient, frame>>

\* noise.add_noise(&mut image, rng)
AddNoise ==
    /\ pc = "draw_custom"
    /\ LET noised == BoundedNoise_add_noise(args.noise, canvas, canvas_width, args.samples)
       IN  /\ canvas' = noised.value
           /\ ret' = noised
    /\ pc' = "add_noise"
    /\ UNCHANGED <<args, ret2, canvas_width, history, gradient, frame>>

\* self.sample_bounded_point(sample_point), as add_noise calls it first
SampleBoundedPoint ==
    /\ pc = "draw_custom"
    /\ ret2' = Value(sample_bounded_point(args.noise, args.samples, 0))
    /\ pc' = "sample_bounded_point"
    /\ UNCHANGED <<args, ret, canvas, canvas_width, history, gradient, frame>>

NextNoise == DrawBackdrop \/ AddNoise \/ SampleBoundedPoint

SpecNoise == InitNoise /\ [][NextNoise]_vars

\* f64::round of the non-negative ratio n / d: half rounds away from zero
Round(n, d) == (2 * n + d) \div (2 * d)

\* C21: an add_noise call that returns has performed exactly
\* round(canvas_width * canvas_height * swap_density) swaps.
C21_SwapCountIsRounded ==
    (pc = "add_noise" /\ ret.tag = "ok")
        => ret.swaps = Round(args.width * args.height * args.noise.swap_density.num,
                             args.noise.swap_density.den)

\* C22: add_noise never raises: whatever points the sampler returns, every
\* pixel index it uses is inside the buffer and the call returns.
C22_AddNoiseNeverRaises ==
    pc = "add_noise" => ret.tag = "ok"

\* the first point of the sampler's sequence that passes the bounds test
FirstInBounds(self, samples) ==
    samples[CHOOSE i \in 1..Len(samples) :
               /\ InBounds(self, samples[i])
               /\ \A j \in 1..(i - 1) : ~InBounds(self, samples[j])]

\* C23: sample_bounded_point draws a new point after each rejected one and
\* returns the first drawn point that is inside the bounding rect and
\* strictly below its max edge.
C23_ReturnsFirstAcceptedPoint ==
    ( /\ pc = "sample_bounded_point"
      /\ \E i \in 1..Len(args.samples) : InBounds(args.noise, args.samples[i]) )
    => ret2.value.point = FirstInBounds(args.noise, args.samples)

\* the number of pixels of buffer that hold colour c
Count(buffer, c) == Cardinality({i \in 1..Len(buffer) : buffer[i] = c})

IsPermutation(b1, b2) ==
    /\ Len(b1) = Len(b2)
    /\ \A i \in 1..Len(b1) : Count(b1, b1[i]) = Count(b2, b1[i])

\* the pixel index a sampled point is swapped at
SwapIndex(p, width) == get_index(width, AsUsize(p.x), AsUsize(p.y)) + 1

\* C29: add_noise leaves the buffer a permutation of what it was, with the
\* same length, and when every swap is of a pixel with itself the buffer is
\* unchanged.
C29_NoiseIsPermutation ==
    [][ (pc' = "add_noise")
        => ( /\ IsPermutation(canvas', canvas)
             /\ (\A i, j \in 1..Len(args.samples) :
                    SwapIndex(args.samples[i], canvas_width)
                        = SwapIndex(args.samples[j], canvas_width))
                => (canvas' = canvas) ) ]_vars

C29_Witness ==
    /\ pc = "add_noise"
    /\ ret.tag = "ok"
    /\ ret.swaps >= 2
    /\ canvas # draw_custom(with_size(args.width, args.height, BLACK), canvas_width, NoiseBackdrop)

(***************************************************************************)
(* Claim on the mixing weights of the gradients                            *)
(***************************************************************************)
\* C26: for a sample point strictly between the poles of a LinearGradient,
\* the pole nearer to the point gets a mixing weight at least as large as
\* the pole farther away.
C26_NearerPoleWeighsMore ==
    ( /\ pc = "sample_color"
      /\ AxisCoord(ret.value, ret.value.pole1.point) < AxisCoord(ret.value, args.point)
      /\ AxisCoord(ret.value, args.point) < AxisCoord(ret.value, ret.value.pole2.point) )
    => LET weights == GradientWeights(ret.value, args.point)
           dist1 == dist_to(args.point, ret.value.pole1.point)
           dist2 == dist_to(args.point, ret.value.pole2.point)
       IN  /\ dist1 < dist2 => weights[1][2] >= weights[2][2]
           /\ dist2 < dist1 => weights[2][2] >= weights[1][2]

(***************************************************************************)
(* Claims on the fixed point of Scale and Rotation and on the identities   *)
(***************************************************************************)
\* the centre / fixed point a Rotation or a Scale was built with
CentreOf(t) == IF t.kind = "Rotation" THEN t.center_of_rotation.new_origin
               ELSE t.fixed_point.new_origin

\* C28: a Scale built with by_from(s, f) maps f to itself and a Rotation
\* built with rotate(angle, c) maps c to itself.
C28_CentreIsFixedPoint ==
    ( /\ pc = "transform"
      /\ args.t.kind \in {"Rotation", "Scale"}
      /\ args.point = CentreOf(args.t) )
    => ret.value = args.point

\* a factor 1.0 / 0.0 is +infinity, and infinity times any f64 is infinite
\* or NaN
HasInfiniteFactor(t) ==
    t.kind = "Scale" /\ (t.scalar.width.den = 0 \/ t.scalar.height.den = 0)

\* a point with an infinite or NaN coordinate
NonFinite == [tag |-> "ok", finite |-> FALSE]
Finite(p) == [tag |-> "ok", finite |-> TRUE, value |-> p]

InitIdentity ==
    /\ pc = "start"
    /\ args \in [t : {Rotation_identity, Scale_identity}, point : SamplePoints]
    /\ ret = NotCalled
    /\ ret2 = NotCalled
    /\ canvas = NoCanvas
    /\ canvas_width = 0
    /\ history = NoHistory
    /\ gradient = None
    /\ frame = None

\* Rotation::identity().transform(&point), Scale::identity().transform(&point)
IdentityTransform ==
    /\ pc = "start"
    /\ pc' = "transform"
    /\ ret' = Finite(transform(args.t, args.point))
    /\ UNCHANGED <<args, ret2, canvas, canvas_width, history, gradient, frame>>

\* the same with inverse_transform
IdentityInverseTransform ==
    /\ pc = "start"
    /\ pc' = "inverse_transform"
    /\ ret2' = IF HasInfiniteFactor(get_inverse(args.t))
               THEN NonFinite
               ELSE Finite(inverse_transform(args.t, args.point))
    /\ UNCHANGED <<args, ret, canvas, canvas_width, history, gradient, frame>>

NextIdentity == IdentityTransform \/ IdentityInverseTransform

SpecIdentity == InitIdentity /\ [][NextIdentity]_vars

\* C30: Rotation::identity() and Scale::identity() map every point to
\* itself, and so do their inverses.
C30_IdentitiesAreIdentity ==
    /\ pc = "transform" => ret.value = args.point
    /\ pc = "inverse_transform" => (ret2.finite /\ ret2.value = args.point)

(***************************************************************************)
(* Claim on the width of the compositing arithmetic                        *)
(***************************************************************************)
U16_MAX == 65535
\* u32::MAX \div 2: n <= u32::MAX exactly when n \div 2 <= HALF_U32_MAX
HALF_U32_MAX == 2147483647

RGB == {"red", "green", "blue"}

\* C27: in draw_on_solid (on u16) and in draw_on (on u32) no intermediate
\* value exceeds its integer type, and every channel is at most 255 before
\* the cast to u8.
C27_NoOverflowNoWrap ==
    /\ pc = "draw_on_solid" =>
          \A ch \in RGB :
             /\ args.canvas_color[ch] * (U8_MAX - args.self.alpha) <= U16_MAX
             /\ args.self[ch] * args.self.alpha <= U16_MAX
             /\ find_new_color_solid_u16(args.canvas_color[ch], args.self[ch],
                                         args.self.alpha) <= U8_MAX
    /\ (pc = "draw_on" /\ ret.tag = "ok") =>
          /\ new_alpha(args.self.alpha, args.base.alpha) <= U8_MAX
          /\ \A ch \in RGB :
                /\ numer(args.base[ch], args.self[ch], args.self.alpha) \div 2 <= HALF_U32_MAX
                /\ numer(args.base[ch], args.self[ch], args.self.alpha)
                      \div new_alpha(args.self.alpha, args.base.alpha) <= U8_MAX

(***************************************************************************)
(* Claim on sequences of draw_custom calls                                 *)
(***************************************************************************)
RECURSIVE DrawnOver(_, _, _)
\* colour with the sampled colour of each instruction whose clip shape
\* contains point drawn over it by draw_on_solid, in order
DrawnOver(instructions, colour, point) ==
    IF instructions = <<>> THEN colour
    ELSE DrawnOver(Tail(instructions),
                   IF Shape_contains(instructions[1].clipping_shape, point)
                   THEN draw_on_solid(sample_color(instructions[1].coloring, point), colour)
                   ELSE colour,
                   point)

\* C25: after any sequence of draw_custom calls without noise, each canvas
\* pixel is the background colour with the sampled colours of the calls
\* whose clip shape contains the pixel drawn over it in call order.
C25_DrawsCompose ==
    \A i \in 1..Len(canvas) :
        canvas[i] = DrawnOver(history, args.background, PixelPoint(canvas_width, i - 1))

C25_Witness ==
    /\ Len(history) = 2
    /\ history[1] # history[2]
    /\ \E i \in 1..Len(canvas) :
          /\ Shape_contains(history[1].clipping_shape, PixelPoint(canvas_width, i - 1))
          /\ Shape_contains(history[2].clipping_shape, PixelPoint(canvas_width, i - 1))
          /\ canvas[i] # args.background
    /\ \E i \in 1..Len(canvas) :
          /\ Shape_contains(history[1].clipping_shape, PixelPoint(canvas_width, i - 1))
          /\ ~Shape_contains(history[2].clipping_shape, PixelPoint(canvas_width, i - 1))
          /\ canvas[i] # args.background
    /\ \E i \in 1..Len(canvas) :
          /\ ~Shape_contains(history[1].clipping_shape, PixelPoint(canvas_width, i - 1))
          /\ ~Shape_contains(history[2].clipping_shape, PixelPoint(canvas_width, i - 1))

(***************************************************************************)
(* Claim on the pixels outside the clip shape                              *)
(***************************************************************************)
\* C24: in a draw_custom call with no post-clip and no post-draw noise (a
\* pre-clip noise may be present) every canvas pixel whose point is not in
\* the clip shape keeps its colour: no step of such a call changes it.
C24_OutsideClipUnchanged ==
    [][ ( /\ frame' # None
          /\ frame'.instruction.post_clip_noise = None
          /\ frame'.instruction.post_draw_noise = None )
        => (\A i \in 1..Len(canvas) :
               ~Shape_contains(frame'.instruction.clipping_shape,
                               PixelPoint(canvas_width, i - 1))
                  => canvas'[i] = canvas[i]) ]_vars

C24_Witness ==
    /\ pc = "returned"
    /\ frame.instruction.pre_clip_noise # None
    /\ frame.instruction.post_clip_noise = None
    /\ frame.instruction.post_draw_noise = None
    /\ frame.new_layer # ClippedLayer(SampledLayer(canvas, canvas_width, frame.instruction),
                                      canvas_width, frame.instruction)
    /\ \E i \in 1..Len(canvas) :
          /\ ~Shape_contains(frame.instruction.clipping_shape, PixelPoint(canvas_width, i - 1))
          /\ canvas[i] # args.background
    /\ \E i \in 1..Len(canvas) :
          /\ Shape_contains(frame.instruction.clipping_shape, PixelPoint(canvas_width, i - 1))
          /\ canvas[i] # args.background

====
